---- MODULE Spec2Model ----
(***************************************************************************)
(* Model of the xspline B-spline engine.                                   *)
(*   src/xspline/bspline.py    class bspline: supports, basis values,      *)
(*                             derivatives, integrals, design matrices     *)
(*   src/src/xspline/utils.py  indicator_f, linear_lf, linear_rf,          *)
(*                             constant_if, integrate_across_pieces,       *)
(*                             pieces_if, indicator_if                     *)
(* bspline.py imports the helpers under their former names: indicator is   *)
(* indicator_f, linearL is linear_lf, linearR is linear_rf and             *)
(* intgIndicator is indicator_if.                                          *)
(*                                                                         *)
(* Reals are exact rationals <<num, den>> in lowest terms with den > 0;    *)
(* <<-1, 0>> and <<1, 0>> stand for -inf and +inf (np.inf), which only     *)
(* ever take part in comparisons.  Every call evaluates one point (the     *)
(* scalar path of the code, arrays of size 1).                             *)
(***************************************************************************)
EXTENDS Integers, Sequences, FiniteSets

VARIABLES knots, degree, call, result

vars == <<knots, degree, call, result>>

(* ------------------------------ bounds -------------------------------- *)
\* knots are drawn from the integers 0..MaxKnot
MaxKnot == 3
\* the spline degree is drawn from 0..MaxDegree
MaxDegree == 2
\* integration orders are drawn from 0..MaxOrder; the recursion of
\* splineIFGen raises them up to MaxOrder + degree
MaxOrder == 2

(* ------------------------- exact rationals ---------------------------- *)
Abs(n) == IF n < 0 THEN -n ELSE n

RECURSIVE GCD(_, _)
GCD(a, b) == IF b = 0 THEN a ELSE GCD(b, a % b)

Rat(n, d) ==
    LET s == IF d < 0 THEN -1 ELSE 1
        g == GCD(Abs(n), Abs(d))
    IN  <<(s * n) \div g, (s * d) \div g>>

Zero == <<0, 1>>
One == <<1, 1>>
PosInf == <<1, 0>>
NegInf == <<-1, 0>>
FromInt(n) == <<n, 1>>

\* sums over the least common denominator and products with cross
\* cancellation, so that intermediate values stay small
RAdd(a, b) ==
    IF a[1] = 0 THEN b
    ELSE IF b[1] = 0 THEN a
    ELSE IF a[2] = 1 /\ b[2] = 1 THEN <<a[1] + b[1], 1>>
    ELSE LET g == GCD(a[2], b[2])
         IN  Rat(a[1] * (b[2] \div g) + b[1] * (a[2] \div g),
                 (a[2] \div g) * b[2])
RSub(a, b) == RAdd(a, <<-b[1], b[2]>>)
RMul(a, b) ==
    IF a[1] = 0 \/ b[1] = 0 THEN Zero
    ELSE IF a[2] = 1 /\ b[2] = 1 THEN <<a[1] * b[1], 1>>
    ELSE LET g1 == GCD(Abs(a[1]), b[2])
             g2 == GCD(Abs(b[1]), a[2])
         IN  <<(a[1] \div g1) * (b[1] \div g2),
               (a[2] \div g2) * (b[2] \div g1)>>
RDiv(a, b) ==
    IF b[1] < 0 THEN RMul(a, <<-b[2], -b[1]>>) ELSE RMul(a, <<b[2], b[1]>>)

RECURSIVE RPow(_, _)
RPow(a, n) == IF n = 0 THEN One ELSE RMul(a, RPow(a, n - 1))

\* comparisons of extended reals (IEEE: -inf < every finite value < +inf)
RLt(a, b) ==
    IF a[2] = 0 /\ b[2] = 0 THEN a[1] < b[1]
    ELSE a[1] * b[2] < b[1] * a[2]
RLe(a, b) == a = b \/ RLt(a, b)
RGt(a, b) == RLt(b, a)
RGe(a, b) == RLe(b, a)

RECURSIVE Factorial(_)
Factorial(n) == IF n = 0 THEN 1 ELSE n * Factorial(n - 1)

RECURSIVE RSum(_)
RSum(s) == IF s = <<>> THEN Zero ELSE RAdd(s[1], RSum(Tail(s)))

RECURSIVE SortedSeq(_)
SortedSeq(S) ==
    IF S = {} THEN <<>>
    ELSE LET m == CHOOSE m \in S : \A y \in S : m <= y
         IN  <<m>> \o SortedSeq(S \ {m})

(* ------------------------- utils.py primitives ------------------------ *)
Float(bool) == IF bool THEN One ELSE Zero

\* indicator_f with r_close ignored, the right end always closed
indicator_f_always_rclosed(x, b, l_close, r_close) ==
    LET lb == IF l_close THEN RGe(x, b[1]) ELSE RGt(x, b[1])
        rb == RLe(x, b[2])
    IN  Float(lb /\ rb)

\* indicator_f with r_close ignored, the right end always open
indicator_f_never_rclosed(x, b, l_close, r_close) ==
    LET lb == IF l_close THEN RGe(x, b[1]) ELSE RGt(x, b[1])
        rb == RLt(x, b[2])
    IN  Float(lb /\ rb)

\* indicator_f that tests the right end only
indicator_f_no_left_test(x, b, l_close, r_close) ==
    LET rb == IF r_close THEN RLe(x, b[2]) ELSE RLt(x, b[2])
    IN  Float(rb)

indicator_f(x, b, l_close, r_close) ==
    LET lb == IF l_close THEN RGe(x, b[1]) ELSE RGt(x, b[1])
        rb == IF r_close THEN RLe(x, b[2]) ELSE RLt(x, b[2])
    IN  Float(lb /\ rb)

\* linear_lf anchored at the wrong end: it falls from 1 to 0
linear_lf_falling(x, b) == RDiv(RSub(x, b[2]), RSub(b[1], b[2]))

linear_lf(x, b) == RDiv(RSub(x, b[1]), RSub(b[2], b[1]))

\* linear_rf with the denominator of linear_lf: it is negative inside
linear_rf_wrong_sign(x, b) == RDiv(RSub(x, b[2]), RSub(b[2], b[1]))

linear_rf(x, b) == RDiv(RSub(x, b[2]), RSub(b[1], b[2]))

(* ------------------------- bspline: the model ------------------------- *)
num_knots == Len(knots)
num_invls == Len(knots) - 1
num_spline_bases == num_invls + degree

\* self.knots[j] (0-based) as a real
Knot(j) == FromInt(knots[j + 1])

Max(a, b) == IF a > b THEN a ELSE b
Min(a, b) == IF a < b THEN a ELSE b

splineSGen(i, p, l_extra, r_extra) ==
    LET cl == IF i = 0 /\ l_extra THEN NegInf ELSE Knot(Max(i - p, 0))
        cr == IF i = p + num_invls - 1 /\ r_extra THEN PosInf
              ELSE Knot(Min(i + 1, num_invls))
    IN  <<cl, cr>>

splineS(i, l_extra, r_extra) == splineSGen(i, degree, l_extra, r_extra)

RECURSIVE splineFGen(_, _, _, _, _)
splineFGen(x, i, p, l_extra, r_extra) ==
    LET k == num_invls + p - 1 IN
    IF p = 0 THEN
        indicator_f(x, splineSGen(i, p, l_extra, r_extra), TRUE, i = num_invls - 1)
    ELSE IF i = 0 THEN
        LET invl == splineSGen(0, p, l_extra, r_extra)
            invl_lin == splineSGen(0, p, FALSE, FALSE)
            y == indicator_f(x, invl, TRUE, FALSE)
            z == linear_rf(x, invl_lin)
        IN  RMul(y, RPow(z, p))
    ELSE IF i = k THEN
        LET invl == splineSGen(k, p, l_extra, r_extra)
            invl_lin == splineSGen(k, p, FALSE, FALSE)
            y == indicator_f(x, invl, TRUE, TRUE)
            z == linear_lf(x, invl_lin)
        IN  RMul(y, RPow(z, p))
    ELSE
        LET lf == RMul(splineFGen(x, i - 1, p - 1, l_extra, r_extra),
                       linear_lf(x, splineSGen(i - 1, p - 1, FALSE, FALSE)))
            rf == RMul(splineFGen(x, i, p - 1, l_extra, r_extra),
                       linear_rf(x, splineSGen(i, p - 1, FALSE, FALSE)))
        IN  RAdd(lf, rf)

splineF(x, i, l_extra, r_extra) == splineFGen(x, i, degree, l_extra, r_extra)

designMat(x, l_extra, r_extra) ==
    [c \in 1..num_spline_bases |-> splineF(x, c - 1, l_extra, r_extra)]

(* --------------------- utils.py piecewise integrator ------------------ *)
Returned(v) == [ok |-> TRUE, val |-> v]
AssertionError == [ok |-> FALSE, val |-> Zero]

\* constant_if without the division by order!
constant_if_no_factorial(a, x, order, c) ==
    IF c = Zero THEN Zero ELSE RMul(c, RPow(RSub(x, a), order))

constant_if(a, x, order, c) ==
    IF c = Zero THEN Zero
    ELSE RDiv(RMul(c, RPow(RSub(x, a), order)), FromInt(Factorial(order)))

\* sum over j in 0..order-1 of funcs[0](a, b, order - j) * (x - b)^j / j!
RECURSIVE FirstPieceTerms(_, _, _, _, _, _)
FirstPieceTerms(a, b, x, order, c, j) ==
    IF j >= order THEN Zero
    ELSE RAdd(RDiv(RMul(constant_if(a, b, order - j, c), RPow(RSub(x, b), j)),
                   FromInt(Factorial(j))),
              FirstPieceTerms(a, b, x, order, c, j + 1))

\* funcs is the sequence of the constants c of the pieces
\* lambda *params: constant_if(*params, c)
RECURSIVE integrate_across_pieces(_, _, _, _, _)

\* integrate_across_pieces without the contribution of the first piece
integrate_across_pieces_rest_only(a, x, order, funcs, kn) ==
    IF Len(funcs) = 1 THEN Returned(constant_if(a, x, order, funcs[1]))
    ELSE IF ~(RLt(a, kn[1]) /\ RGt(x, kn[Len(kn)])) THEN AssertionError
    ELSE integrate_across_pieces(kn[1], x, order, Tail(funcs), Tail(kn))

integrate_across_pieces(a, x, order, funcs, kn) ==
    IF Len(funcs) = 1 THEN Returned(constant_if(a, x, order, funcs[1]))
    ELSE IF ~(RLt(a, kn[1]) /\ RGt(x, kn[Len(kn)])) THEN AssertionError
    ELSE
        LET b == kn[1]
            rest == integrate_across_pieces(b, x, order, Tail(funcs), Tail(kn))
        IN  IF ~rest.ok THEN AssertionError
            ELSE Returned(RAdd(rest.val,
                               FirstPieceTerms(a, b, x, order, funcs[1], 0)))

\* a_ind[ia] and x_ind[ix] of pieces_if, ia and ix 0-based
a_ind(a, kn, ia) ==
    IF ia = 0 THEN RLt(a, kn[1])
    ELSE IF ia = Len(kn) THEN RGe(a, kn[Len(kn)])
    ELSE RGe(a, kn[ia]) /\ RLt(a, kn[ia + 1])

x_ind(x, kn, ix) ==
    IF ix = 0 THEN RLe(x, kn[1])
    ELSE IF ix = Len(kn) THEN RGt(x, kn[Len(kn)])
    ELSE RGt(x, kn[ix]) /\ RLe(x, kn[ix + 1])

\* the pairs (ia, ix), ia <= ix, whose case_id = a_ind[ia] & x_ind[ix] holds
CaseIds(a, x, kn) ==
    LET ias == {ia \in 0..Len(kn) : a_ind(a, kn, ia)}
        ixs == {ix \in 0..Len(kn) : x_ind(x, kn, ix)}
    IN  {c \in ias \X ixs : c[1] <= c[2]}

\* pieces_if without the assertion a <= x
pieces_if_unchecked(a, x, order, funcs, kn) ==
    LET cases == CaseIds(a, x, kn)
    IN  IF cases = {} THEN Returned(Zero)
        ELSE LET c == CHOOSE c \in cases : TRUE
             IN  integrate_across_pieces(a, x, order,
                     SubSeq(funcs, c[1] + 1, c[2] + 1),
                     SubSeq(kn, c[1] + 1, c[2]))

pieces_if(a, x, order, funcs, kn) ==
    IF ~RLe(a, x) THEN AssertionError
    ELSE IF Len(funcs) # Len(kn) + 1 THEN AssertionError
    ELSE
        LET cases == CaseIds(a, x, kn)
        IN  IF cases = {} THEN Returned(Zero)
            ELSE LET c == CHOOSE c \in cases : TRUE
                 IN  integrate_across_pieces(a, x, order,
                         SubSeq(funcs, c[1] + 1, c[2] + 1),
                         SubSeq(kn, c[1] + 1, c[2]))

indicator_if(a, x, order, b) == pieces_if(a, x, order, <<Zero, One, Zero>>, b)

(* -------------------- bspline: derivatives, integrals ----------------- *)
RECURSIVE splineDFGen(_, _, _, _, _, _)

\* splineDFGen whose second term takes the span d with the sign of the
\* first term (invl[1] - invl[0] instead of invl[0] - invl[1])
splineDFGen_same_span(x, i, p, n, l_extra, r_extra) ==
    LET k == num_invls + p - 1 IN
    IF n = 0 THEN splineFGen(x, i, p, l_extra, r_extra)
    ELSE IF n > p THEN Zero
    ELSE IF p = 0 THEN
        indicator_f(x, splineSGen(i, p, l_extra, r_extra), TRUE, i = num_invls - 1)
    ELSE
        LET rdf == IF i = 0 THEN Zero
                   ELSE LET invl == splineSGen(i - 1, p - 1, FALSE, FALSE)
                            d == RSub(invl[2], invl[1])
                            f == RDiv(RSub(x, invl[1]), d)
                        IN  RAdd(RMul(f, splineDFGen(x, i - 1, p - 1, n,
                                                     l_extra, r_extra)),
                                 RDiv(RMul(FromInt(n),
                                           splineDFGen(x, i - 1, p - 1, n - 1,
                                                       l_extra, r_extra)), d))
            ldf == IF i = k THEN Zero
                   ELSE LET invl == splineSGen(i, p - 1, FALSE, FALSE)
                            d == RSub(invl[2], invl[1])
                            f == RDiv(RSub(x, invl[2]), d)
                        IN  RAdd(RMul(f, splineDFGen(x, i, p - 1, n,
                                                     l_extra, r_extra)),
                                 RDiv(RMul(FromInt(n),
                                           splineDFGen(x, i, p - 1, n - 1,
                                                       l_extra, r_extra)), d))
        IN  RAdd(ldf, rdf)

splineDFGen(x, i, p, n, l_extra, r_extra) ==
    LET k == num_invls + p - 1 IN
    IF n = 0 THEN splineFGen(x, i, p, l_extra, r_extra)
    ELSE IF n > p THEN Zero
    ELSE IF p = 0 THEN
        indicator_f(x, splineSGen(i, p, l_extra, r_extra), TRUE, i = num_invls - 1)
    ELSE
        LET rdf == IF i = 0 THEN Zero
                   ELSE LET invl == splineSGen(i - 1, p - 1, FALSE, FALSE)
                            d == RSub(invl[2], invl[1])
                            f == RDiv(RSub(x, invl[1]), d)
                        IN  RAdd(RMul(f, splineDFGen(x, i - 1, p - 1, n,
                                                     l_extra, r_extra)),
                                 RDiv(RMul(FromInt(n),
                                           splineDFGen(x, i - 1, p - 1, n - 1,
                                                       l_extra, r_extra)), d))
            ldf == IF i = k THEN Zero
                   ELSE LET invl == splineSGen(i, p - 1, FALSE, FALSE)
                            d == RSub(invl[1], invl[2])
                            f == RDiv(RSub(x, invl[2]), d)
                        IN  RAdd(RMul(f, splineDFGen(x, i, p - 1, n,
                                                     l_extra, r_extra)),
                                 RDiv(RMul(FromInt(n),
                                           splineDFGen(x, i, p - 1, n - 1,
                                                       l_extra, r_extra)), d))
        IN  RAdd(ldf, rdf)

splineDF(x, i, n, l_extra, r_extra) ==
    splineDFGen(x, i, degree, n, l_extra, r_extra)

designDMat(x, n, l_extra, r_extra) ==
    [c \in 1..num_spline_bases |-> splineDF(x, c - 1, n, l_extra, r_extra)]

\* f * I_n - n * I_{n+1} / d, failing when either integral fails
IntgTerm(f, d, n, In, In1) ==
    IF ~(In.ok /\ In1.ok) THEN AssertionError
    ELSE Returned(RSub(RMul(f, In.val), RDiv(RMul(FromInt(n), In1.val), d)))

RECURSIVE splineIFGen(_, _, _, _, _, _, _)
splineIFGen(a, x, i, p, n, l_extra, r_extra) ==
    LET k == num_invls + p - 1 IN
    IF n = 0 THEN Returned(splineFGen(x, i, p, l_extra, r_extra))
    ELSE IF p = 0 THEN
        indicator_if(a, x, n, splineSGen(i, 0, l_extra, r_extra))
    ELSE
        LET rif == IF i = 0 THEN Returned(Zero)
                   ELSE LET invl == splineSGen(i - 1, p - 1, FALSE, FALSE)
                            d == RSub(invl[2], invl[1])
                            f == RDiv(RSub(x, invl[1]), d)
                        IN  IntgTerm(f, d, n,
                                splineIFGen(a, x, i - 1, p - 1, n,
                                            l_extra, r_extra),
                                splineIFGen(a, x, i - 1, p - 1, n + 1,
                                            l_extra, r_extra))
            lif == IF i = k THEN Returned(Zero)
                   ELSE LET invl == splineSGen(i, p - 1, FALSE, FALSE)
                            d == RSub(invl[1], invl[2])
                            f == RDiv(RSub(x, invl[2]), d)
                        IN  IntgTerm(f, d, n,
                                splineIFGen(a, x, i, p - 1, n,
                                            l_extra, r_extra),
                                splineIFGen(a, x, i, p - 1, n + 1,
                                            l_extra, r_extra))
        IN  IF ~(rif.ok /\ lif.ok) THEN AssertionError
            ELSE Returned(RAdd(lif.val, rif.val))

splineIF(a, x, i, n, l_extra, r_extra) ==
    splineIFGen(a, x, i, degree, n, l_extra, r_extra)

(* ------------------------------ inputs -------------------------------- *)
\* the knot arguments of the constructor: sets of at least two integers that
\* start at 0 (the basis is invariant under a shift of the knots)
KnotInputs == {S \in SUBSET (0..MaxKnot) : 0 \in S /\ Cardinality(S) >= 2}

\* evaluation points: the grid of quarter steps from one step left of the
\* first knot to one step right of the last knot
GridStep == <<1, 4>>
Points ==
    {RMul(FromInt(m), GridStep) : m \in (-1)..(knots[Len(knots)] * GridStep[2] + 1)}

\* bounds of the integrals of the basis: the same, in half steps
IntgStep == <<1, 2>>
IntgPoints ==
    {RMul(FromInt(m), IntgStep) : m \in (-1)..(knots[Len(knots)] * IntgStep[2] + 1)}

\* the intervals [l, r] handed to indicator_if: the knot intervals
Intervals == {<<Knot(j), Knot(j + 1)>> : j \in 0..(num_invls - 1)}

\* integration orders of a call
Orders == 0..MaxOrder

\* derivative orders of a call: up to one more than the degree, where the
\* derivative is identically zero
DOrders == 0..(degree + 1)

NoCall == [op |-> "none", a |-> Zero, x |-> Zero, i |-> 0, n |-> 0,
           l_extra |-> FALSE, r_extra |-> FALSE, b |-> <<Zero, Zero>>]

Raised == [ok |-> FALSE, val |-> <<>>]
Value(v) == [ok |-> TRUE, val |-> v]
Scalar(r) == IF r.ok THEN Value(<<r.val>>) ELSE Raised

Idle == call.op = "none"

\* bspline.__init__: deduplicate, sort, derive the counts, check the input
Init ==
    /\ \E S \in KnotInputs : knots = SortedSeq(S)
    /\ degree \in 0..MaxDegree
    /\ call = NoCall
    /\ result = Value(<<>>)

CallSplineS ==
    /\ Idle
    /\ \E i \in 0..num_spline_bases, l \in BOOLEAN, r \in BOOLEAN :
        /\ call' = [NoCall EXCEPT !.op = "splineS", !.i = i,
                                  !.l_extra = l, !.r_extra = r]
        /\ result' = IF i < num_invls + degree
                     THEN Value(splineS(i, l, r))
                     ELSE Raised
    /\ UNCHANGED <<knots, degree>>

CallSplineF ==
    /\ Idle
    /\ \E x \in Points, i \in 0..num_spline_bases, l \in BOOLEAN, r \in BOOLEAN :
        /\ call' = [NoCall EXCEPT !.op = "splineF", !.x = x, !.i = i,
                                  !.l_extra = l, !.r_extra = r]
        /\ result' = IF i <= num_invls + degree - 1
                     THEN Value(<<splineF(x, i, l, r)>>)
                     ELSE Raised
    /\ UNCHANGED <<knots, degree>>

CallDesignMat ==
    /\ Idle
    /\ \E x \in Points, l \in BOOLEAN, r \in BOOLEAN :
        /\ call' = [NoCall EXCEPT !.op = "designMat", !.x = x,
                                  !.l_extra = l, !.r_extra = r]
        /\ result' = Value(designMat(x, l, r))
    /\ UNCHANGED <<knots, degree>>

CallSplineDF ==
    /\ Idle
    /\ \E x \in Points, i \in 0..num_spline_bases, n \in DOrders,
          l \in BOOLEAN, r \in BOOLEAN :
        /\ call' = [NoCall EXCEPT !.op = "splineDF", !.x = x, !.i = i, !.n = n,
                                  !.l_extra = l, !.r_extra = r]
        /\ result' = IF i <= num_invls + degree - 1
                     THEN Value(<<splineDF(x, i, n, l, r)>>)
                     ELSE Raised
    /\ UNCHANGED <<knots, degree>>

CallDesignDMat ==
    /\ Idle
    /\ \E x \in Points, n \in DOrders, l \in BOOLEAN, r \in BOOLEAN :
        /\ call' = [NoCall EXCEPT !.op = "designDMat", !.x = x, !.n = n,
                                  !.l_extra = l, !.r_extra = r]
        /\ result' = Value(designDMat(x, n, l, r))
    /\ UNCHANGED <<knots, degree>>

CallSplineIF ==
    /\ Idle
    /\ \E a \in IntgPoints, x \in IntgPoints, i \in 0..num_spline_bases,
          n \in Orders :
        /\ call' = [NoCall EXCEPT !.op = "splineIF", !.a = a, !.x = x,
                                  !.i = i, !.n = n]
        /\ result' = IF i <= num_invls + degree - 1
                     THEN Scalar(splineIF(a, x, i, n, FALSE, FALSE))
                     ELSE Raised
    /\ UNCHANGED <<knots, degree>>

CallIndicatorIF ==
    /\ Idle
    /\ \E a \in Points, x \in Points, n \in 1..(MaxOrder + degree),
          b \in Intervals :
        /\ call' = [NoCall EXCEPT !.op = "indicator_if", !.a = a, !.x = x,
                                  !.n = n, !.b = b]
        /\ result' = Scalar(indicator_if(a, x, n, b))
    /\ UNCHANGED <<knots, degree>>

\* the caller takes the value (or the exception) and may call again
Return ==
    /\ ~Idle
    /\ call' = NoCall
    /\ result' = Value(<<>>)
    /\ UNCHANGED <<knots, degree>>

NextBasis == CallSplineS \/ CallSplineF \/ CallDesignMat \/ Return

SpecBasis == Init /\ [][NextBasis]_vars

NextDeriv == CallSplineDF \/ CallDesignDMat \/ Return

SpecDeriv == Init /\ [][NextDeriv]_vars

NextIntg == CallSplineIF \/ Return

SpecIntg == Init /\ [][NextIntg]_vars

NextPieces == CallIndicatorIF \/ Return

SpecPieces == Init /\ [][NextPieces]_vars

Next ==
    \/ CallSplineS \/ CallSplineF \/ CallDesignMat
    \/ CallSplineDF \/ CallDesignDMat
    \/ CallSplineIF \/ CallIndicatorIF
    \/ Return

Spec == Init /\ [][Next]_vars

(* ------------------------------ claims -------------------------------- *)
DefaultFlags == ~call.l_extra /\ ~call.r_extra
FirstKnot == Knot(0)
LastKnot == Knot(num_invls)
ValidIndex == call.i <= num_invls + degree - 1
Outside(x, b) == RLt(x, b[1]) \/ RGt(x, b[2])

\* C1: partition of unity.  A row of designMat (the values splineF(x, i) of
\* all basis indices, both flags False) sums to exactly 1 at every x with
\* knots[0] < x < knots[last], interior knots included.
C1_PartitionOfUnity ==
    (/\ call.op = "designMat"
     /\ DefaultFlags
     /\ RLt(FirstKnot, call.x) /\ RLt(call.x, LastKnot))
    => RSum(result.val) = One

C1_Witness ==
    /\ call.op = "designMat"
    /\ DefaultFlags
    /\ degree >= 2
    /\ num_invls >= 2
    /\ call.x = Knot(1)
    /\ RSum(result.val) = One

\* C2: compact support without extrapolation.  With both flags False,
\* splineF(x, i) is exactly 0 for every x left of splineS(i)[0] or right of
\* splineS(i)[1].
C2_CompactSupport ==
    (/\ call.op = "splineF"
     /\ result.ok
     /\ DefaultFlags
     /\ Outside(call.x, splineS(call.i, FALSE, FALSE)))
    => result.val[1] = Zero

C2_Witness ==
    /\ call.op = "splineF"
    /\ result.ok
    /\ DefaultFlags
    /\ degree >= 1
    /\ RGt(call.x, splineS(call.i, FALSE, FALSE)[2])
    /\ RLt(call.x, LastKnot)
    /\ result.val[1] = Zero

\* C3: non-negativity.  With the default flags splineF(x, i) >= 0 for every
\* x, inside or outside the knot domain.
C3_NonNegative ==
    (call.op = "splineF" /\ result.ok /\ DefaultFlags)
    => RGe(result.val[1], Zero)

C3_Witness ==
    /\ call.op = "splineF"
    /\ result.ok
    /\ DefaultFlags
    /\ degree >= 2
    /\ 0 < call.i /\ call.i < num_invls + degree - 1
    /\ RGt(result.val[1], Zero)
    /\ RLt(result.val[1], One)

\* C4 as claimed: for knots [0, 1] and degree 0, splineF(0.5, 0) = 1.0 and
\* splineF(1.0, 0) = 0.0 with both flags False.
IsUnitDegree0Call ==
    /\ knots = <<0, 1>>
    /\ degree = 0
    /\ call.op = "splineF"
    /\ call.i = 0
    /\ DefaultFlags

C4_RightOpenAsClaimed ==
    IsUnitDegree0Call =>
        /\ (call.x = <<1, 2>> => result.val[1] = One)
        /\ (call.x = One => result.val[1] = Zero)

\* C4 amended: for knots [0, 1] and degree 0, splineF(0.5, 0) = 1.0 and
\* splineF(1.0, 0) = 1.0 with both flags False: the last interval is closed
\* on the right.
C4_LastIntervalClosed ==
    IsUnitDegree0Call =>
        /\ (call.x = <<1, 2>> => result.val[1] = One)
        /\ (call.x = One => result.val[1] = One)

C4_Witness ==
    /\ IsUnitDegree0Call
    /\ call.x = One
    /\ result.val[1] = One

\* C5: zero outside the flag-dependent support.  For every combination of
\* the flags splineF(x, i) is exactly 0 for x outside
\* splineS(i, l_extra, r_extra), and the flags change the value of no basis
\* function other than index 0 and the last index.
C5_ZeroOutsideFlagSupport ==
    (call.op = "splineF" /\ result.ok) =>
        /\ Outside(call.x, splineS(call.i, call.l_extra, call.r_extra))
              => result.val[1] = Zero
        /\ (0 < call.i /\ call.i < num_invls + degree - 1)
              => result.val[1] = splineF(call.x, call.i, FALSE, FALSE)

\* C6: integral additivity.  For the first-order integral with the default
\* flags and all bounds a <= c <= x,
\* splineIF(a, c, i, 1) + splineIF(c, x, i, 1) = splineIF(a, x, i, 1).
C6_IntegralAdditivity ==
    (/\ call.op = "splineIF"
     /\ ValidIndex
     /\ call.n = 1
     /\ RLe(call.a, call.x))
    => \A c \in IntgPoints :
          (RLe(call.a, c) /\ RLe(c, call.x)) =>
              LET left == splineIF(call.a, c, call.i, 1, FALSE, FALSE)
                  right == splineIF(c, call.x, call.i, 1, FALSE, FALSE)
              IN  /\ result.ok /\ left.ok /\ right.ok
                  /\ RAdd(left.val, right.val) = result.val[1]

C6_Witness ==
    /\ call.op = "splineIF"
    /\ ValidIndex
    /\ call.n = 1
    /\ degree >= 2
    /\ result.ok
    /\ \E c \in IntgPoints :
          /\ RLt(call.a, c) /\ RLt(c, call.x)
          /\ RGt(splineIF(call.a, c, call.i, 1, FALSE, FALSE).val, Zero)
          /\ RGt(splineIF(c, call.x, call.i, 1, FALSE, FALSE).val, Zero)
          /\ RAdd(splineIF(call.a, c, call.i, 1, FALSE, FALSE).val,
                  splineIF(c, call.x, call.i, 1, FALSE, FALSE).val)
                = result.val[1]

\* C7 as claimed: for every order n >= 0 a call splineIF(a, x, i, n) with
\* a > x and a valid index ends in an assertion failure.
C7_RejectedAsClaimed ==
    (call.op = "splineIF" /\ ValidIndex /\ RGt(call.a, call.x))
    => ~result.ok

\* C7 amended: for every order n >= 1 a call splineIF(a, x, i, n) with
\* a > x and a valid index ends in an assertion failure and returns no
\* value (order 0 returns splineF(x, i) without looking at a).
C7_RejectedFromOrder1 ==
    (call.op = "splineIF" /\ ValidIndex /\ call.n >= 1 /\ RGt(call.a, call.x))
    => (~result.ok /\ result.val = <<>>)

C7_Witness ==
    /\ call.op = "splineIF"
    /\ ValidIndex
    /\ call.n >= 1
    /\ degree >= 1
    /\ RGt(call.a, call.x)
    /\ ~result.ok

\* C8: indicator_if is the exact repeated integral of an indicator.  For
\* an interval [l, r] with l < r, an order n >= 1 and bounds a <= x it returns
\* ((x - lo)^n - (x - hi)^n) / n! with lo = max(a, l) and hi = min(x, r) when
\* lo < hi, and 0 otherwise, and no assertion fails.
ClosedForm(a, x, n, b) ==
    LET lo == IF RGt(a, b[1]) THEN a ELSE b[1]
        hi == IF RLt(x, b[2]) THEN x ELSE b[2]
    IN  IF RLt(lo, hi)
        THEN RDiv(RSub(RPow(RSub(x, lo), n), RPow(RSub(x, hi), n)),
                  FromInt(Factorial(n)))
        ELSE Zero

C8_IndicatorIntegralExact ==
    (call.op = "indicator_if" /\ call.n >= 1 /\ RLe(call.a, call.x))
    => /\ result.ok
       /\ result.val = <<ClosedForm(call.a, call.x, call.n, call.b)>>

C8_Witness ==
    /\ call.op = "indicator_if"
    /\ call.n >= 2
    /\ RLt(call.a, call.b[1])
    /\ RGt(call.x, call.b[2])
    /\ result.ok
    /\ result.val = <<ClosedForm(call.a, call.x, call.n, call.b)>>
    /\ result.val # <<Zero>>

\* the ramp over [b[1], b[2]] that is 0 at the left endpoint and 1 at the
\* right one, and the ramp that is 1 at the left endpoint and 0 at the right
RisingRamp(x, b) == RDiv(RSub(x, b[1]), RSub(b[2], b[1]))
FallingRamp(x, b) == RDiv(RSub(b[2], x), RSub(b[2], b[1]))

IsInteriorCall ==
    /\ call.op = "splineF"
    /\ degree > 0
    /\ 0 < call.i /\ call.i < num_invls + degree - 1

\* C9 as claimed: for q > 0 and an interior index i, splineFGen(x, i, q) is
\* splineFGen(x, i-1, q-1) times the falling ramp over splineSGen(i-1, q-1)
\* plus splineFGen(x, i, q-1) times the rising ramp over splineSGen(i, q-1).
C9_RecursionAsClaimed ==
    IsInteriorCall =>
        result.val[1] =
            RAdd(RMul(splineFGen(call.x, call.i - 1, degree - 1,
                                 call.l_extra, call.r_extra),
                      FallingRamp(call.x,
                          splineSGen(call.i - 1, degree - 1, FALSE, FALSE))),
                 RMul(splineFGen(call.x, call.i, degree - 1,
                                 call.l_extra, call.r_extra),
                      RisingRamp(call.x,
                          splineSGen(call.i, degree - 1, FALSE, FALSE))))

\* C9 amended: for q > 0 and an interior index i, splineFGen(x, i, q) is
\* splineFGen(x, i-1, q-1) times the rising ramp over splineSGen(i-1, q-1)
\* (0 at the left endpoint, 1 at the right) plus splineFGen(x, i, q-1) times
\* the falling ramp over splineSGen(i, q-1) (1 at the left endpoint, 0 at
\* the right).
C9_RecursionStep ==
    IsInteriorCall =>
        result.val[1] =
            RAdd(RMul(splineFGen(call.x, call.i - 1, degree - 1,
                                 call.l_extra, call.r_extra),
                      RisingRamp(call.x,
                          splineSGen(call.i - 1, degree - 1, FALSE, FALSE))),
                 RMul(splineFGen(call.x, call.i, degree - 1,
                                 call.l_extra, call.r_extra),
                      FallingRamp(call.x,
                          splineSGen(call.i, degree - 1, FALSE, FALSE))))

C9_Witness ==
    /\ IsInteriorCall
    /\ degree >= 2
    /\ DefaultFlags
    /\ RGt(splineFGen(call.x, call.i - 1, degree - 1, FALSE, FALSE), Zero)
    /\ RGt(splineFGen(call.x, call.i, degree - 1, FALSE, FALSE), Zero)
    /\ RisingRamp(call.x, splineSGen(call.i - 1, degree - 1, FALSE, FALSE))
         # FallingRamp(call.x, splineSGen(call.i - 1, degree - 1, FALSE, FALSE))
    /\ RGt(result.val[1], Zero)

\* C10: the derivatives of the basis sum to zero.  A row of designDMat (the
\* values splineDF(x, i, n) of all basis indices, default flags) sums to
\* exactly 0 for every order 1 <= n <= degree and every x with
\* knots[0] <= x <= knots[last].
C10_DerivativesSumToZero ==
    (/\ call.op = "designDMat"
     /\ DefaultFlags
     /\ 1 <= call.n /\ call.n <= degree
     /\ RLe(FirstKnot, call.x) /\ RLe(call.x, LastKnot))
    => RSum(result.val) = Zero

C10_Witness ==
    /\ call.op = "designDMat"
    /\ DefaultFlags
    /\ degree >= 2
    /\ call.n = degree
    /\ num_invls >= 2
    /\ call.x = Knot(1)
    /\ \E c \in 1..num_spline_bases : RGt(result.val[c], Zero)
    /\ RSum(result.val) = Zero

====
